---- MODULE Spec2Model ----
(***************************************************************************)
(* Banner upload handler of the project dashboard                          *)
(* (src/pages/api/banner/upload.ts).  Every request is one run of the      *)
(* async function `handler`; a run is cut at its await points and at the   *)
(* stream events of the request body, so that the runs of several requests *)
(* interleave exactly where the event loop lets them.                      *)
(*                                                                         *)
(* Collaborators.  Every awaited call (Config Store, Session Resolver,     *)
(* Record Store, mkdir) either returns or throws; a throw lands in the     *)
(* handler's catch.  bannerImage.delete throws when the row is gone.  An   *)
(* unlink is issued by the handler and settles later, on its own.  A write *)
(* stream opens its file in a later turn of the event loop and closes it   *)
(* in a turn after its end; an open that fails makes the stream emit       *)
(* 'error', which nothing listens to.  Once the file is open its writes    *)
(* are taken to succeed.                                                   *)
(* res.status(s).json(b) is recorded call by call: the first call is what  *)
(* the client receives, a later call throws ERR_HTTP_HEADERS_SENT.         *)
(***************************************************************************)
EXTENDS Integers, Sequences, FiniteSets, TLC

\* ------------------------------------------------------------------ bounds
NumReqs == 2      \* requests handled, possibly concurrently
MaxChunks == 2    \* 'data' events a request body may deliver
MaxProjects == 2  \* projects the Record Store holds for the directory page

\* --------------------------------------------------------------- constants
maxSize == 5000000

Reqs == 1..NumReqs
Methods == {"GET", "POST"}
Users == {"alice", "bob"}
ChunkSizes == {2500000, 2500001}

\* An optional value (null | x) is the empty or the one-element sequence.
Null == <<>>
Some(x) == <<x>>

\* The content-length header a client may declare: absent, or a number.
ContentLengths == {Null, Some(maxSize), Some(maxSize + 1)}

\* The systemConfigSetting row of key 'forbidEditing': no row, or a row
\* whose JSON value is the boolean true, the boolean false, or a string.
ConfigRows == {"null", "bool:true", "bool:false", "string:true"}

\* The project a user (and the session made for that user) is linked to.
ProjectOf(u) == IF u = "alice" THEN "p1" ELSE "p2"

\* The banner a project may own before any request is handled.
PriorId == "prior"

VARIABLES
    forbidSetting,   \* Config Store: the row of key 'forbidEditing'
    bannerImages,    \* Record Store: the BannerImage rows
    files,           \* the paths that exist on disk
    idCounter,       \* how many identifiers createId has issued
    pendingUnlinks,  \* fs.promises.unlink calls issued and not yet settled
    req,             \* per request: what the client sends, the stream state
    loc,             \* per request: the handler's position and locals
    res,             \* per request: the response object
    trace,           \* per request: the collaborator calls the handler made
    uncaught,        \* exceptions and rejections nothing handled
    logged,          \* what the unlinks' own catch callbacks logged
    site,            \* directory page: the visitor and the stores it reads
    page             \* directory page: getServerSideProps and the component

vars == <<forbidSetting, bannerImages, files, idCounter, pendingUnlinks,
          req, loc, res, trace, uncaught, logged, site, page>>

uploadVars == <<forbidSetting, bannerImages, files, idCounter, pendingUnlinks,
                req, loc, res, trace, uncaught, logged>>

\* ------------------------------------------------------ pure helpers

\* (mutant) the method check lets every method through
MethodAllowedAny(m) == TRUE

\* upload.ts:14  req.method !== 'POST'
MethodAllowed(m) == m = "POST"

\* (mutant) the edit lock is compared with the string 'true'
IsForbiddenString(row) == row = "string:true"

\* upload.ts:27  forbidEditing?.value === true
IsForbidden(row) == row = "bool:true"

\* getServerSession: the session of the user the request's cookie names, or
\* null when it names none.
SessionFor(cookie) == IF cookie = "none" THEN "null" ELSE cookie

\* (mutant) the session check is dropped
NoSessionNever(session) == FALSE

\* upload.ts:40  !session
NoSession(session) == session = "null"

\* upload.ts:34  req.headers['content-length'] ?? 0
ReportedSize(h) == IF h = Null THEN 0 ELSE h[1]

\* (mutant) the declared length is rejected from the ceiling on (>=)
DeclaredTooLargeInclusive(h) == ReportedSize(h) >= maxSize

\* upload.ts:35  reportedSize > maxSize
DeclaredTooLarge(h) == ReportedSize(h) > maxSize

\* (mutant) the overflow guard fires from the ceiling on (>=)
OverflowInclusive(size) == size >= maxSize

\* upload.ts:85  size > maxSize
Overflow(size) == size > maxSize

\* upload.ts:66  createId(): the n-th identifier issued; never repeats.
createId(n) == "c" \o ToString(n)

\* upload.ts:71  the url stored in the record
RecordUrl(id) == "/api/res/images/" \o id

\* (mutant) the returned url is built from another prefix than the stored one
ResponseUrlOtherPrefix(id) == "/api/res/image/" \o id

\* upload.ts:97  the url returned to the client
ResponseUrl(id) == "/api/res/images/" \o id

\* upload.ts:76  the file the body is streamed to
Filename(id) == "./data/uploads/" \o id \o ".jpg"

\* upload.ts:60  the file of the superseded banner
OldFilename(id) == "./data/uploads/" \o id \o ".jpg"

\* upload.ts:69-73  the row handed to bannerImage.create
NewRecord(id, projectId) ==
    [id |-> id, url |-> RecordUrl(id), projectId |-> projectId]

\* upload.ts:45-50  user.findUnique(email).project().banner(): the answers
\* the lookup may give, null when the project has no row, else one row of
\* the project (any of them, should the store hold several).
BannerOf(store, u) ==
    LET found == {b \in store : b.projectId = ProjectOf(u)}
    IN  IF found = {} THEN {Null} ELSE {Some(b) : b \in found}

\* bannerImage.delete throws when no row has the id.
RowExists(store, id) == \E b \in store : b.id = id

RECURSIVE Sum(_)
Sum(s) == IF s = <<>> THEN 0 ELSE Head(s) + Sum(Tail(s))

\* ------------------------------------------------------ response object

Call(status, body) == [status |-> status, body |-> body]
ErrorBody(e) == [e |-> e]
UrlBody(u) == [url |-> u]

\* Whether the response headers have left (a first res.json flushed them).
HeadersSent(r) == res[r].calls # <<>>

\* The response the client receives: the first res.status(..).json(..).
Delivered(r) == res[r].calls[1]

\* res.status(s).json(b): the call is recorded; only the first reaches the
\* client, a later one throws ERR_HTTP_HEADERS_SENT at its caller.
Send(r, call) == [res EXCEPT ![r].calls = Append(@, call)]

\* upload.ts:16
MethodNotAllowedResponse == Call(405, ErrorBody("Method Not Allowed"))

\* upload.ts:28-30
EditingForbiddenResponse ==
    Call(400, ErrorBody("Bad Request: Project editing is not currently allowed"))

\* upload.ts:36
TooLargeResponse == Call(413, ErrorBody("Resource size exceeds limit (5MB)"))

\* upload.ts:41
UnauthorizedResponse == Call(401, ErrorBody("Unauthorized"))

\* upload.ts:89-91
OverflowResponse == Call(413, ErrorBody("Resource size exceeds limit (5MB)"))

\* upload.ts:96-98
SuccessResponse(id) == Call(200, UrlBody(ResponseUrl(id)))

\* (mutant) the catch answers without setting the status
InternalErrorNoStatus == Call(200, ErrorBody("Internal Server Error"))

\* upload.ts:103
InternalErrorResponse == Call(500, ErrorBody("Internal Server Error"))

\* ------------------------------------------------------------------ Init

\* The directory page is not visited while uploads are handled.
NoSite == [visitor |-> "none", directoryDisabled |-> "null", projects |-> <<>>]
NoPage == [pc |-> "idle"]

InitReq ==
    [method : Methods, contentLength : ContentLengths,
     sessionUser : {"none"} \cup Users,
     body : {<<>>}, destroyed : {FALSE}, piped : {FALSE}, ended : {FALSE}]

InitLoc ==
    [pc |-> "start", forbidEditing |-> "unread", session |-> "unresolved",
     currentBanner |-> Null, id |-> "", size |-> 0, successful |-> TRUE,
     filename |-> "", fileStream |-> "none", writableEnded |-> FALSE,
     written |-> 0]

Init ==
    /\ forbidSetting \in ConfigRows
    /\ \E prior \in BOOLEAN :
         /\ bannerImages = IF prior THEN {NewRecord(PriorId, "p1")} ELSE {}
         /\ files = IF prior THEN {Filename(PriorId)} ELSE {}
    /\ idCounter = 0
    /\ pendingUnlinks = {}
    /\ req \in [Reqs -> InitReq]
    /\ loc = [r \in Reqs |-> InitLoc]
    /\ res = [r \in Reqs |-> [allow |-> Null, calls |-> <<>>]]
    /\ trace = [r \in Reqs |-> <<>>]
    /\ uncaught = {}
    /\ logged = {}
    /\ site = NoSite
    /\ page = NoPage

\* --------------------------------------------------------------- actions

Log(r, op) == [trace EXCEPT ![r] = Append(@, op)]

Goto(r, pc) == [loc EXCEPT ![r].pc = pc]

\* (mutant) the catch logs and sends nothing
CatchSilent(r, op) ==
    /\ trace' = [trace EXCEPT ![r] = @ \o <<op, "console.error">>]
    /\ res' = res
    /\ loc' = Goto(r, "done")

\* upload.ts:101-104  the top-level catch: log, answer 500.  `op` is the
\* call that threw.
Catch(r, op) ==
    /\ trace' = [trace EXCEPT ![r] = @ \o <<op, "console.error">>]
    /\ res' = Send(r, InternalErrorResponse)
    /\ loc' = Goto(r, "done")

\* upload.ts:14-21  the method check; a POST goes on to read the config.
Start(r) ==
    /\ loc[r].pc = "start"
    /\ IF ~MethodAllowed(req[r].method)
       THEN /\ res' = [Send(r, MethodNotAllowedResponse)
                          EXCEPT ![r].allow = Some("POST")]
            /\ loc' = Goto(r, "done")
       ELSE /\ res' = res
            /\ loc' = Goto(r, "config")
    /\ UNCHANGED <<logged, site, page, forbidSetting, bannerImages, files, idCounter,
                   pendingUnlinks, req, trace, uncaught>>

\* upload.ts:21-37  the config read settles; the edit lock and the declared
\* length are checked; a request that passes goes on to resolve its session.
ReadConfig(r) ==
    /\ loc[r].pc = "config"
    /\ \E ok \in BOOLEAN :
         IF ~ok
         THEN Catch(r, "systemConfigSetting.findUnique")
         ELSE /\ trace' = Log(r, "systemConfigSetting.findUnique")
              /\ IF IsForbidden(forbidSetting)
                 THEN /\ res' = Send(r, EditingForbiddenResponse)
                      /\ loc' = [loc EXCEPT ![r].pc = "done",
                                            ![r].forbidEditing = forbidSetting]
                 ELSE IF DeclaredTooLarge(req[r].contentLength)
                 THEN /\ res' = Send(r, TooLargeResponse)
                      /\ loc' = [loc EXCEPT ![r].pc = "done",
                                            ![r].forbidEditing = forbidSetting]
                 ELSE /\ res' = res
                      /\ loc' = [loc EXCEPT ![r].pc = "session",
                                            ![r].forbidEditing = forbidSetting]
    /\ UNCHANGED <<logged, site, page, forbidSetting, bannerImages, files, idCounter,
                   pendingUnlinks, req, uncaught>>

\* upload.ts:38-45  the session resolves; no session answers 401; a session
\* goes on to look the caller's banner up.
ResolveSession(r) ==
    /\ loc[r].pc = "session"
    /\ \E ok \in BOOLEAN :
         IF ~ok
         THEN Catch(r, "getServerSession")
         ELSE /\ trace' = Log(r, "getServerSession")
              /\ LET session == SessionFor(req[r].sessionUser)
                 IN  IF NoSession(session)
                     THEN /\ res' = Send(r, UnauthorizedResponse)
                          /\ loc' = [loc EXCEPT ![r].pc = "done",
                                                ![r].session = session]
                     ELSE /\ res' = res
                          /\ loc' = [loc EXCEPT ![r].pc = "lookup",
                                                ![r].session = session]
    /\ UNCHANGED <<logged, site, page, forbidSetting, bannerImages, files, idCounter,
                   pendingUnlinks, req, uncaught>>

\* (mutant) the lookup goes on to the create even when it found a banner:
\* the old row is not deleted first
LookupSkipDelete(r) ==
    /\ loc[r].pc = "lookup"
    /\ \E ok \in BOOLEAN :
         IF ~ok
         THEN /\ Catch(r, "user.findUnique.project.banner")
              /\ idCounter' = idCounter
         ELSE \E cur \in BannerOf(bannerImages, loc[r].session) :
              /\ res' = res
              /\ trace' = [trace EXCEPT ![r] = @ \o
                     <<"user.findUnique.project.banner", "createId">>]
              /\ loc' = [loc EXCEPT ![r].pc = "create",
                            ![r].currentBanner = cur,
                            ![r].id = createId(idCounter + 1)]
              /\ idCounter' = idCounter + 1
    /\ UNCHANGED <<logged, site, page, forbidSetting, bannerImages, files, pendingUnlinks, req,
                   uncaught>>

\* upload.ts:45-53 (and 66-68 when there is no banner)  the lookup settles.
Lookup(r) ==
    /\ loc[r].pc = "lookup"
    /\ \E ok \in BOOLEAN :
         IF ~ok
         THEN /\ Catch(r, "user.findUnique.project.banner")
              /\ idCounter' = idCounter
         ELSE \E cur \in BannerOf(bannerImages, loc[r].session) :
                  /\ res' = res
                  /\ IF cur # Null
                     THEN /\ trace' = Log(r, "user.findUnique.project.banner")
                          /\ loc' = [loc EXCEPT ![r].pc = "delete",
                                                ![r].currentBanner = cur]
                          /\ idCounter' = idCounter
                     ELSE /\ trace' = [trace EXCEPT ![r] = @ \o
                               <<"user.findUnique.project.banner", "createId">>]
                          /\ loc' = [loc EXCEPT ![r].pc = "create",
                                                ![r].currentBanner = cur,
                                                ![r].id = createId(idCounter + 1)]
                          /\ idCounter' = idCounter + 1
    /\ UNCHANGED <<logged, site, page, forbidSetting, bannerImages, files, pendingUnlinks, req,
                   uncaught>>

\* upload.ts:53-68  the delete of the old row settles (it throws when the row
\* is gone); the unlink of the old file is issued and not awaited; the new
\* identifier is drawn.
DeleteOld(r) ==
    /\ loc[r].pc = "delete"
    /\ LET old == loc[r].currentBanner[1]
       IN \E ok \in BOOLEAN :
         IF ~ok \/ ~RowExists(bannerImages, old.id)
         THEN /\ Catch(r, "bannerImage.delete")
              /\ UNCHANGED <<bannerImages, pendingUnlinks, idCounter>>
         ELSE /\ bannerImages' = {b \in bannerImages : b.id # old.id}
              /\ pendingUnlinks' = pendingUnlinks \cup
                    {[req |-> r, path |-> OldFilename(old.id), kind |-> "old"]}
              /\ trace' = [trace EXCEPT ![r] = @ \o
                    <<"bannerImage.delete", "unlink.old", "createId">>]
              /\ loc' = [loc EXCEPT ![r].pc = "create",
                                    ![r].id = createId(idCounter + 1)]
              /\ idCounter' = idCounter + 1
              /\ res' = res
    /\ UNCHANGED <<logged, site, page, forbidSetting, files, req, uncaught>>

\* upload.ts:68-77  the create of the new row settles: the row is stored,
\* or the store throws.
CreateRecord(r) ==
    /\ loc[r].pc = "create"
    /\ LET projectId == ProjectOf(loc[r].session)
       IN \E ok \in BOOLEAN :
         IF ~ok
         THEN /\ Catch(r, "bannerImage.create")
              /\ bannerImages' = bannerImages
         ELSE /\ bannerImages' = bannerImages \cup
                                    {NewRecord(loc[r].id, projectId)}
              /\ trace' = Log(r, "bannerImage.create")
              /\ loc' = Goto(r, "mkdir")
              /\ res' = res
    /\ UNCHANGED <<logged, site, page, forbidSetting, files, idCounter, pendingUnlinks, req,
                   uncaught>>

\* upload.ts:77-99  mkdir settles; the write stream is created (its file is
\* opened later, see OpenSettles), the listener and the pipe are attached,
\* `successful` is read (no chunk can have come yet) and the 200 is sent.
AttachAndRespond(r) ==
    /\ loc[r].pc = "mkdir"
    /\ \E ok \in BOOLEAN :
         IF ~ok
         THEN /\ Catch(r, "mkdir")
              /\ UNCHANGED <<files, req>>
         ELSE /\ files' = files
              /\ req' = [req EXCEPT ![r].piped = TRUE]
              /\ trace' = [trace EXCEPT ![r] = @ \o
                              <<"mkdir", "createWriteStream", "pipe">>]
              /\ loc' = [loc EXCEPT ![r].pc = "streaming",
                                    ![r].filename = Filename(loc[r].id),
                                    ![r].fileStream = "opening"]
              /\ res' = IF loc[r].successful
                        THEN Send(r, SuccessResponse(loc[r].id))
                        ELSE res
    /\ UNCHANGED <<logged, site, page, forbidSetting, bannerImages, idCounter, pendingUnlinks,
                   uncaught>>

\* upload.ts:82-94  one 'data' event: the listener counts the chunk and, on
\* overflow, destroys the request, unpipes, issues the unlink of the partial
\* file and answers 413; that res.json throws when the headers have left,
\* which ends the listener before `successful = false` and keeps the chunk
\* from the pipe.  Without overflow the pipe writes the chunk to the file.
OnData(r) ==
    /\ loc[r].pc = "streaming"
    /\ ~req[r].destroyed /\ ~req[r].ended
    /\ Len(req[r].body) < MaxChunks
    /\ \E len \in ChunkSizes :
         LET size == loc[r].size + len
         IN  IF Overflow(size)
             THEN /\ req' = [req EXCEPT ![r].body = Append(@, len),
                                        ![r].destroyed = TRUE,
                                        ![r].piped = FALSE]
                  /\ pendingUnlinks' = pendingUnlinks \cup
                        {[req |-> r, path |-> loc[r].filename,
                          kind |-> "partial"]}
                  /\ trace' = [trace EXCEPT ![r] = @ \o
                        <<"req.destroy", "req.unpipe", "unlink.partial">>]
                  /\ res' = Send(r, OverflowResponse)
                  /\ uncaught' = IF HeadersSent(r)
                                 THEN uncaught \cup
                                      {[req |-> r, err |-> "ERR_HTTP_HEADERS_SENT"]}
                                 ELSE uncaught
                  /\ loc' = [loc EXCEPT ![r].pc = "aborted",
                                        ![r].size = size,
                                        ![r].successful =
                                            IF HeadersSent(r) THEN @ ELSE FALSE]
             ELSE /\ req' = [req EXCEPT ![r].body = Append(@, len)]
                  /\ loc' = [loc EXCEPT ![r].size = size,
                                        ![r].written =
                                            IF req[r].piped THEN @ + len ELSE @]
                  /\ UNCHANGED <<pendingUnlinks, trace, res, uncaught>>
    /\ UNCHANGED <<logged, site, page, forbidSetting, bannerImages, files, idCounter>>

\* The write stream emits 'error' (upload.ts:78 attaches no listener): the
\* stream is destroyed and the pipe unpipes the request.  A request that
\* has delivered a chunk is resumed by the pipe's cleanup and goes on
\* feeding the 'data' listener of upload.ts:82; one that has delivered none
\* stops flowing, and no chunk and no 'end' reaches the handler any more.
StreamError(r) ==
    /\ req' = [req EXCEPT ![r].piped = FALSE]
    /\ loc' = [loc EXCEPT ![r].fileStream = "errored",
                          ![r].pc = IF @ = "streaming" /\ req[r].body = <<>>
                                    THEN "stalled" ELSE @]
    /\ uncaught' = uncaught \cup {[req |-> r, err |-> "write stream error"]}

\* upload.ts:78  the open of the write stream's file settles, in a turn of
\* the event loop after the handler has returned: the file is created, or
\* the open fails and the stream emits 'error'.
OpenSettles(r) ==
    /\ loc[r].fileStream = "opening"
    /\ \E ok \in BOOLEAN :
         IF ok
         THEN /\ files' = files \cup {loc[r].filename}
              /\ loc' = [loc EXCEPT ![r].fileStream = "open"]
              /\ UNCHANGED <<req, uncaught>>
         ELSE /\ StreamError(r)
              /\ files' = files
    /\ UNCHANGED <<logged, site, page, forbidSetting, bannerImages, idCounter, pendingUnlinks,
                   res, trace>>

\* upload.ts:94  the 'end' event: the pipe calls end() on the write stream
\* (the file is closed later, see StreamClose).  Whether a request that the
\* listener destroyed still emits 'end' is up to the HTTP layer; nothing of
\* the handler listens to it then.
OnEnd(r) ==
    /\ loc[r].pc \in {"streaming", "aborted"}
    /\ ~req[r].ended
    /\ req' = [req EXCEPT ![r].ended = TRUE]
    /\ loc' = IF loc[r].pc = "streaming"
              THEN [loc EXCEPT ![r].pc = "done",
                               ![r].writableEnded = req[r].piped]
              ELSE loc
    /\ UNCHANGED <<logged, site, page, forbidSetting, bannerImages, files, idCounter,
                   pendingUnlinks, res, trace, uncaught>>

\* upload.ts:94  the ended write stream, its file open and its writes
\* flushed, closes the file, in a turn of the event loop after 'end'.
StreamClose(r) ==
    /\ loc[r].fileStream = "open"
    /\ loc[r].writableEnded
    /\ loc' = [loc EXCEPT ![r].fileStream = "closed"]
    /\ UNCHANGED <<logged, site, page, forbidSetting, bannerImages, files, idCounter,
                   pendingUnlinks, req, res, trace, uncaught>>

\* upload.ts:59-63, 88  an issued unlink settles.  It removes the file, or
\* it rejects (no such file, or the disk fails): the rejection of the old
\* file's unlink is caught and logged by the unlink's own catch callback,
\* that of the partial file's is not.
SettleUnlink(u) ==
    /\ u \in pendingUnlinks
    /\ pendingUnlinks' = pendingUnlinks \ {u}
    /\ \E ok \in BOOLEAN :
         IF ok /\ u.path \in files
         THEN /\ files' = files \ {u.path}
              /\ UNCHANGED <<logged, uncaught>>
         ELSE /\ files' = files
              /\ IF u.kind = "old"
                 THEN /\ logged' = logged \cup
                            {[req |-> u.req, msg |-> "console.error:unlink"]}
                      /\ uncaught' = uncaught
                 ELSE /\ logged' = logged
                      /\ uncaught' = uncaught \cup
                            {[req |-> u.req, err |-> "unlink rejected"]}
    /\ UNCHANGED <<site, page, forbidSetting, bannerImages, idCounter, req, loc, res,
                   trace>>

Next ==
    \/ \E r \in Reqs : Start(r)
    \/ \E r \in Reqs : ReadConfig(r)
    \/ \E r \in Reqs : ResolveSession(r)
    \/ \E r \in Reqs : Lookup(r)
    \/ \E r \in Reqs : DeleteOld(r)
    \/ \E r \in Reqs : CreateRecord(r)
    \/ \E r \in Reqs : AttachAndRespond(r)
    \/ \E r \in Reqs : OnData(r)
    \/ \E r \in Reqs : OpenSettles(r)
    \/ \E r \in Reqs : OnEnd(r)
    \/ \E r \in Reqs : StreamClose(r)
    \/ \E u \in pendingUnlinks : SettleUnlink(u)

Spec == Init /\ [][Next]_vars

\* ---------------------------------------------------------------- claims

\* What the handler of r has done to the collaborators and the disk.
Untouched(r) ==
    /\ loc[r].id = ""
    /\ loc[r].currentBanner = Null
    /\ loc[r].fileStream = "none"
    /\ \A u \in pendingUnlinks : u.req # r
    /\ ~req[r].piped /\ ~req[r].destroyed /\ req[r].body = <<>>

\* C1: a request whose method is not POST is answered 405 with Allow: POST,
\* and its handler reads no config, resolves no session, touches no record
\* and no file.
C1_MethodNotAllowed ==
    \A r \in Reqs :
        req[r].method # "POST" =>
            /\ trace[r] = <<>>
            /\ loc[r].forbidEditing = "unread"
            /\ loc[r].session = "unresolved"
            /\ Untouched(r)
            /\ loc[r].pc \in {"start", "done"}
            /\ loc[r].pc = "done" =>
                  /\ res[r].calls =
                        <<[status |-> 405, body |-> [e |-> "Method Not Allowed"]]>>
                  /\ res[r].allow = <<"POST">>

\* C1 witness: a GET has been answered while the other request, a POST, has
\* created its record.
C1_Witness ==
    \E r, q \in Reqs :
        /\ req[r].method = "GET" /\ loc[r].pc = "done" /\ HeadersSent(r)
        /\ loc[q].pc = "streaming"

\* C2: with the forbidEditing setting true, a POST whose config read
\* returned is answered 400 whatever it declares, carries or is signed with,
\* and nothing further is done for it.
C2_EditingForbidden ==
    \A r \in Reqs :
        (forbidSetting = "bool:true" /\ loc[r].forbidEditing # "unread") =>
            /\ res[r].calls =
                  <<[status |-> 400, body |->
                     [e |-> "Bad Request: Project editing is not currently allowed"]]>>
            /\ trace[r] = <<"systemConfigSetting.findUnique">>
            /\ loc[r].session = "unresolved"
            /\ Untouched(r)
            /\ loc[r].pc = "done"

\* C2 witness: the 400 went to a signed-in request that declared more than
\* the ceiling.
C2_Witness ==
    \E r \in Reqs :
        /\ forbidSetting = "bool:true" /\ loc[r].forbidEditing = "bool:true"
        /\ req[r].contentLength = <<maxSize + 1>>
        /\ req[r].sessionUser = "alice"
        /\ HeadersSent(r) /\ Delivered(r).status = 400

\* C3: with editing not forbidden, a POST that declares more than 5,000,000
\* is answered 413 before the session is resolved and before any record or
\* file is touched; a declared 5,000,000 or no header goes on to the
\* session check.
C3_DeclaredTooLarge ==
    \A r \in Reqs :
        (loc[r].forbidEditing \notin {"unread", "bool:true"}) =>
            IF req[r].contentLength # <<>> /\ req[r].contentLength[1] > 5000000
            THEN /\ res[r].calls =
                       <<[status |-> 413, body |->
                          [e |-> "Resource size exceeds limit (5MB)"]]>>
                 /\ trace[r] = <<"systemConfigSetting.findUnique">>
                 /\ loc[r].session = "unresolved"
                 /\ Untouched(r)
                 /\ Filename(loc[r].id) \notin files
                 /\ loc[r].pc = "done"
            ELSE \/ loc[r].pc = "session" /\ res[r].calls = <<>>
                 \/ Len(trace[r]) >= 2 /\ trace[r][2] = "getServerSession"

\* C3 witness: one request was answered 413 on its declared length, the
\* other declared exactly the ceiling and had its session resolved.
C3_Witness ==
    \E r, q \in Reqs :
        /\ req[r].contentLength = <<maxSize + 1>>
        /\ HeadersSent(r) /\ Delivered(r).status = 413
        /\ req[q].contentLength = <<maxSize>>
        /\ loc[q].session = "alice"

\* C4: a request whose session resolves to none is answered 401; no record
\* is deleted or created and no file is created or deleted for it.
C4_Unauthorized ==
    \A r \in Reqs :
        loc[r].session = "null" =>
            /\ res[r].calls =
                  <<[status |-> 401, body |-> [e |-> "Unauthorized"]]>>
            /\ trace[r] = <<"systemConfigSetting.findUnique", "getServerSession">>
            /\ Untouched(r)
            /\ loc[r].pc = "done"

\* C4 witness: a 401 was sent while the prior banner and its file are still
\* in place.
C4_Witness ==
    \E r \in Reqs :
        /\ loc[r].session = "null"
        /\ HeadersSent(r) /\ Delivered(r).status = 401
        /\ \E b \in bannerImages : b.id = PriorId
        /\ Filename(PriorId) \in files

Range(f) == {f[i] : i \in DOMAIN f}

Finished(r) == loc[r].pc \in {"done", "aborted", "stalled"}

RowsOf(store, projectId) == {b \in store : b.projectId = projectId}

\* C5 (as claimed): when a request that found a prior banner sends its 200,
\* the old row is gone, the unlink of the old file has been issued, and the
\* project has exactly one row, the one of this upload, under a new id.
C5_ReplacementOriginal ==
    [][\A r \in Reqs :
        (/\ loc[r].pc = "mkdir" /\ loc'[r].pc = "streaming"
         /\ loc[r].currentBanner # Null) =>
            LET old == loc[r].currentBanner[1]
            IN  /\ \A b \in bannerImages' : b.id # old.id
                /\ "unlink.old" \in Range(trace'[r])
                /\ loc[r].id # old.id
                /\ RowsOf(bannerImages', old.projectId) =
                      {[id |-> loc[r].id, url |-> "/api/res/images/" \o loc[r].id,
                        projectId |-> old.projectId]}]_vars

\* C6 (as claimed): a body that streams past 5,000,000 bytes is answered
\* 413, the request is destroyed and the partial file is removed or its
\* removal is under way.
C6_OverflowOriginal ==
    \A r \in Reqs :
        (loc[r].fileStream # "none" /\ Sum(req[r].body) > 5000000) =>
            /\ HeadersSent(r) /\ Delivered(r).status = 413
            /\ req[r].destroyed
            /\ \/ loc[r].filename \notin files
               \/ \E u \in pendingUnlinks : u.path = loc[r].filename

\* C7 (as claimed): res.json is called at most once for a request, and
\* exactly once for a request whose work is over.
C7_SingleResponseOriginal ==
    \A r \in Reqs :
        /\ Len(res[r].calls) <= 1
        /\ Finished(r) => Len(res[r].calls) = 1

\* C8: the url of a 200 response is /api/res/images/{id} for the id drawn
\* for that upload, it is the url of the row stored under that id, and the
\* stream was opened on ./data/uploads/{id}.jpg.
C8_UrlRoundTrip ==
    \A r \in Reqs :
        (HeadersSent(r) /\ Delivered(r).status = 200) =>
            /\ loc[r].id # ""
            /\ Delivered(r).body = [url |-> "/api/res/images/" \o loc[r].id]
            /\ \A b \in bannerImages :
                  b.id = loc[r].id => b.url = Delivered(r).body.url
            /\ "bannerImage.create" \in Range(trace[r])
            /\ loc[r].filename = "./data/uploads/" \o loc[r].id \o ".jpg"

\* C8 witness: a 200 was sent, the row of that upload is stored and its file
\* is on disk.
C8_Witness ==
    \E r \in Reqs :
        /\ HeadersSent(r) /\ Delivered(r).status = 200
        /\ \E b \in bannerImages : b.id = loc[r].id /\ b.url = Delivered(r).body.url
        /\ loc[r].filename \in files

\* The cause a status stands for, read off the request, the stores and the
\* calls the handler made.
CauseOf(r, status) ==
    CASE status = 405 -> req[r].method # "POST"
      [] status = 400 -> req[r].method = "POST" /\ forbidSetting = "bool:true"
      [] status = 413 -> \/ /\ req[r].contentLength # <<>>
                            /\ req[r].contentLength[1] > 5000000
                         \/ Sum(req[r].body) > 5000000
      [] status = 401 -> req[r].sessionUser = "none"
      [] status = 500 -> "console.error" \in Range(trace[r])
      [] status = 200 -> /\ req[r].method = "POST"
                         /\ forbidSetting # "bool:true"
                         /\ \/ req[r].contentLength = <<>>
                            \/ req[r].contentLength[1] <= 5000000
                         /\ req[r].sessionUser \in Users
                         /\ "bannerImage.create" \in Range(trace[r])
      [] OTHER -> FALSE

\* C9: every res.status(..).json(..) of a request carries one of 200, 400,
\* 401, 405, 413, 500, the status fits its cause, and the body has a url
\* exactly when the status is 200 and an error string e exactly when not.
C9_StatusAndBody ==
    \A r \in Reqs : \A i \in 1..Len(res[r].calls) :
        LET c == res[r].calls[i]
        IN  /\ c.status \in {200, 400, 401, 405, 413, 500}
            /\ CauseOf(r, c.status)
            /\ ("url" \in DOMAIN c.body) <=> (c.status = 200)
            /\ ("e" \in DOMAIN c.body) <=> (c.status # 200)

\* C9 witness: one request was answered 500 by the catch; the other was
\* answered 200 and then made the 413 call of the overflow path.
C9_Witness ==
    \E r, q \in Reqs :
        /\ HeadersSent(r) /\ Delivered(r).status = 500
        /\ Len(res[q].calls) = 2
        /\ res[q].calls[1].status = 200 /\ res[q].calls[2].status = 413

C11_FileIffRecordOriginal ==
    \A r \in Reqs :
        LET path == "./data/uploads/" \o loc[r].id \o ".jpg"
        IN  (/\ Finished(r) /\ loc[r].id # ""
             /\ loc[r].fileStream # "opening"
             /\ \A u \in pendingUnlinks : u.path # path) =>
                ((path \in files) <=> (\E b \in bannerImages : b.id = loc[r].id))

\* C12 (as claimed): a 200 has been sent only when the body has ended and
\* its bytes never went past the ceiling.
C12_SuccessAfterStreamOriginal ==
    \A r \in Reqs :
        (HeadersSent(r) /\ Delivered(r).status = 200) =>
            /\ req[r].ended
            /\ Sum(req[r].body) <= 5000000

\* C13 (as claimed): no request whose work is over (body ended, overflow
\* abort, error) leaves its write stream open: the stream is closed, or it
\* has been ended and closes once its file is open and flushed.
C13_StreamClosedOriginal ==
    \A r \in Reqs :
        (Finished(r) /\ loc[r].fileStream \in {"opening", "open"}) =>
            loc[r].writableEnded

\* C14 (as claimed): a cleanup unlink that fails is never an unhandled
\* error, and a replacement whose old file could not be removed is still
\* answered 200.
C14_CleanupSilentOriginal ==
    /\ \A e \in uncaught : e.err # "unlink rejected"
    /\ \A r \in Reqs :
          (/\ [req |-> r, msg |-> "console.error:unlink"] \in logged
           /\ "console.error" \notin Range(trace[r])
           /\ HeadersSent(r)) => Delivered(r).status = 200

\* C15: an exception of any awaited step of a POST (config read, session,
\* lookup, delete, create, mkdir) enters the catch, which answers the single
\* response 500 'Internal Server Error'; what escapes the catch, the
\* exception thrown in the 'data' listener and the 'error' event of the
\* write stream, comes after a response was sent.
C15_CatchAll ==
    \A r \in Reqs :
        /\ "console.error" \in Range(trace[r]) =>
              /\ res[r].calls =
                    <<[status |-> 500, body |-> [e |-> "Internal Server Error"]]>>
              /\ loc[r].pc = "done"
              /\ \A e \in uncaught : e.req # r
        /\ \A e \in uncaught :
              /\ (e.req = r /\ e.err = "ERR_HTTP_HEADERS_SENT") =>
                    Len(res[r].calls) >= 2
              /\ (e.req = r /\ e.err = "write stream error") => HeadersSent(r)

\* C15 witness: mkdir threw for one request and bannerImage.delete for the
\* other; both were answered 500.
C15_Witness ==
    \E r, q \in Reqs :
        /\ "mkdir" \in Range(trace[r]) /\ "console.error" \in Range(trace[r])
        /\ "createWriteStream" \notin Range(trace[r])
        /\ HeadersSent(r) /\ Delivered(r).status = 500
        /\ "bannerImage.delete" \in Range(trace[q])
        /\ "unlink.old" \notin Range(trace[q])
        /\ HeadersSent(q) /\ Delivered(q).status = 500

\* The steps of a validated request in the order the handler takes them,
\* with and without a prior banner.
StepsWithOld ==
    <<"systemConfigSetting.findUnique", "getServerSession",
      "user.findUnique.project.banner", "bannerImage.delete", "unlink.old",
      "createId", "bannerImage.create", "mkdir", "createWriteStream", "pipe">>

StepsNoOld ==
    <<"systemConfigSetting.findUnique", "getServerSession",
      "user.findUnique.project.banner",
      "createId", "bannerImage.create", "mkdir", "createWriteStream", "pipe">>

StepNames == Range(StepsWithOld)

IsStep(x) == x \in StepNames

StepsTaken(r) == SelectSeq(trace[r], IsStep)

IsPrefix(s, t) == Len(s) <= Len(t) /\ s = SubSeq(t, 1, Len(s))

\* C16: the steps a request has taken are a prefix of: config read (with
\* the declared-length check), session, lookup, delete of the old row and
\* unlink of the old file when a banner was found, create of the new row,
\* mkdir, open of the write stream, pipe; a chunk is received only after
\* all of them.
C16_StepOrder ==
    \A r \in Reqs :
        LET taken == StepsTaken(r)
            order == IF loc[r].currentBanner # Null THEN StepsWithOld
                                                    ELSE StepsNoOld
        IN  /\ IsPrefix(taken, order)
            /\ "getServerSession" \in Range(trace[r]) =>
                  /\ loc[r].forbidEditing \notin {"unread", "bool:true"}
                  /\ \/ req[r].contentLength = <<>>
                     \/ req[r].contentLength[1] <= 5000000
            /\ (req[r].body # <<>> \/ loc[r].written > 0) => taken = order

\* C16 witness: a request that replaced the prior banner has received a
\* chunk.
C16_Witness ==
    \E r \in Reqs :
        /\ loc[r].currentBanner # Null
        /\ loc[r].currentBanner[1].id = PriorId
        /\ loc[r].written > 0
        /\ StepsTaken(r) = StepsWithOld

Front(s) == SubSeq(s, 1, Len(s) - 1)

\* C17: the running count is the sum of the chunks received; a streaming
\* request is aborted exactly when that sum is past 5,000,000, which the
\* chunks before the last one were not; the declared length plays no part.
C17_RunningCount ==
    \A r \in Reqs :
        /\ loc[r].size = Sum(req[r].body)
        /\ loc[r].fileStream # "none" =>
              ((loc[r].pc = "aborted") <=> (Sum(req[r].body) > 5000000))
        /\ loc[r].pc = "aborted" =>
              /\ req[r].body # <<>>
              /\ Sum(Front(req[r].body)) <= 5000000
        /\ (loc[r].pc # "aborted" /\ loc[r].fileStream # "errored") =>
              loc[r].written = Sum(req[r].body)

\* C17 witness: a request that declared exactly 5,000,000 was aborted at its
\* second chunk, another has received exactly 5,000,000 bytes unaborted.
C17_Witness ==
    \E r, q \in Reqs :
        /\ req[r].contentLength = <<maxSize>>
        /\ loc[r].pc = "aborted" /\ Len(req[r].body) = 2
        /\ Sum(req[q].body) = 5000000 /\ loc[q].pc = "done"

\* ===================================================== directory page
\* The project directory page: getServerSideProps, then the Projects
\* component with its tag filter.

Tags == {"tagA", "tagB"}

\* Who visits: nobody signed in, an admin, a plain user, or a session whose
\* email has no user row.
Visitors == {"none", "alice", "bob", "ghost"}

\* The user row of an email (isAdmin), or null.
UserRow(email) ==
    CASE email = "alice" -> Some([email |-> "alice", isAdmin |-> TRUE])
      [] email = "bob" -> Some([email |-> "bob", isAdmin |-> FALSE])
      [] OTHER -> Null

\* The project rows with their logo included: every list of at most
\* MaxProjects rows, the i-th with id i, any tags, a logo or none.
LogoOf(i) == [id |-> "logo" \o ToString(i), url |-> "/api/res/images/logo" \o ToString(i),
              projectId |-> i]

ProjectRows(i) ==
    [id : {i}, tags : SUBSET Tags, logo : {Null, Some(LogoOf(i))}]

ProjectLists ==
    UNION {{ps \in [1..n -> UNION {ProjectRows(i) : i \in 1..n}] :
               \A i \in 1..n : ps[i].id = i} : n \in 0..MaxProjects}

\* part_000:41  directoryDisabled?.value ?? false
DirectoryDisabledValue(row) == IF row = "null" THEN "bool:false" ELSE row

\* part_000:42  user?.isAdmin ?? false
UserIsAdminValue(user) == IF user = Null THEN FALSE ELSE user[1].isAdmin

\* JavaScript truthiness of a setting value.
Truthy(v) == v \in {"bool:true", "string:true"}

\* (mutant) the directory is handed out whatever the setting says
ShowProjectsAlways(disabled, admin) == TRUE

\* part_000:49  !directoryDisabledValue || userIsAdminValue
ShowProjects(disabled, admin) == ~Truthy(disabled) \/ admin

\* part_000:50-65  the fields of a project handed to the page
LightProject(p) ==
    [id |-> p.id, tags |-> p.tags,
     logo |-> IF p.logo # Null
              THEN Some([id |-> p.logo[1].id, url |-> p.logo[1].url])
              ELSE Null]

\* part_000:44-69  the props
Props(projects, row, user) ==
    LET disabled == DirectoryDisabledValue(row)
        admin == UserIsAdminValue(user)
    IN  [directoryDisabled |-> disabled,
         projects |-> IF ShowProjects(disabled, admin)
                      THEN [i \in 1..Len(projects) |-> LightProject(projects[i])]
                      ELSE <<>>,
         userIsAdmin |-> admin]

\* (mutant) the memo misses its selectedTag dependency: the list stays whole
FilteredProjectsStale(projects, selectedTag) == projects

\* part_000:84-89  filteredProjects
FilteredProjects(projects, selectedTag) ==
    IF selectedTag = "null"
    THEN projects
    ELSE SelectSeq(projects, LAMBDA project : selectedTag \in project.tags)

\* part_000:91  showDirectory
ShowDirectory(props) == ~Truthy(props.directoryDisabled) \/ props.userIsAdmin

InitPage ==
    [pc |-> "session", email |-> "unresolved", user |-> Null,
     projects |-> <<>>, props |-> Null, selectedTag |-> "null",
     filteredProjects |-> <<>>, lastEvent |-> Null]

InitDirectory ==
    /\ forbidSetting = "null"
    /\ bannerImages = {}
    /\ files = {}
    /\ idCounter = 0
    /\ pendingUnlinks = {}
    /\ req = [r \in Reqs |->
                [method |-> "GET", contentLength |-> Null, sessionUser |-> "none",
                 body |-> <<>>, destroyed |-> FALSE, piped |-> FALSE,
                 ended |-> FALSE]]
    /\ loc = [r \in Reqs |-> InitLoc]
    /\ res = [r \in Reqs |-> [allow |-> Null, calls |-> <<>>]]
    /\ trace = [r \in Reqs |-> <<>>]
    /\ uncaught = {}
    /\ logged = {}
    /\ site \in [visitor : Visitors, directoryDisabled : ConfigRows,
                 projects : ProjectLists]
    /\ page = InitPage

\* part_000:16-27  the session resolves; with an email the user is looked up.
GetSession ==
    /\ page.pc = "session"
    /\ page' = [page EXCEPT !.email = site.visitor,
                            !.pc = IF site.visitor # "none" THEN "user"
                                                            ELSE "projects"]
    /\ UNCHANGED <<site, uploadVars>>

\* part_000:24-29  the user row, or null.
FindUser ==
    /\ page.pc = "user"
    /\ page' = [page EXCEPT !.user = UserRow(page.email), !.pc = "projects"]
    /\ UNCHANGED <<site, uploadVars>>

\* part_000:29-35  all projects with their logo.
FindProjects ==
    /\ page.pc = "projects"
    /\ page' = [page EXCEPT !.projects = site.projects, !.pc = "config"]
    /\ UNCHANGED <<site, uploadVars>>

\* part_000:35-69  the directoryDisabled row is read, the props are built and
\* getServerSideProps returns them.
BuildProps ==
    /\ page.pc = "config"
    /\ page' = [page EXCEPT
                    !.props = Some(Props(page.projects, site.directoryDisabled,
                                         page.user)),
                    !.pc = "props"]
    /\ UNCHANGED <<site, uploadVars>>

\* part_000:72-91  the framework calls the component with the props: the
\* first render, no tag selected.
Render ==
    /\ page.pc = "props"
    /\ page' = [page EXCEPT
                    !.filteredProjects = FilteredProjects(page.props[1].projects, "null"),
                    !.pc = "rendered"]
    /\ UNCHANGED <<site, uploadVars>>

\* part_000:107-138  a checkbox of the filter changes.  Only the checkbox of
\* the selected tag is shown once a tag is selected, and a checkbox flips;
\* the component renders again with the new selection.
OnChange(tag, checked) ==
    /\ page.pc = "rendered"
    /\ ShowDirectory(page.props[1])
    /\ page.selectedTag = "null" \/ page.selectedTag = tag
    /\ checked = (page.selectedTag # tag)
    /\ LET selected == IF checked THEN tag ELSE "null"
       IN  page' = [page EXCEPT
                       !.selectedTag = selected,
                       !.filteredProjects =
                           FilteredProjects(page.props[1].projects, selected),
                       !.lastEvent = Some([tag |-> tag, checked |-> checked])]
    /\ UNCHANGED <<site, uploadVars>>

NextDirectory ==
    \/ GetSession
    \/ FindUser
    \/ FindProjects
    \/ BuildProps
    \/ Render
    \/ \E tag \in Tags, checked \in BOOLEAN : OnChange(tag, checked)

SpecDirectory == InitDirectory /\ [][NextDirectory]_vars

\* C18: the props carry a non-empty projects list only when the
\* directoryDisabled setting is false or absent, or the visitor is an admin;
\* with the setting true, a visitor who is not signed in or not an admin
\* gets the empty list whatever the store holds.
C18_DirectoryGate ==
    page.props # Null =>
        LET props == page.props[1]
            isAdmin == site.visitor = "alice"
        IN  /\ props.projects # <<>> =>
                  \/ site.directoryDisabled \in {"null", "bool:false"}
                  \/ isAdmin
            /\ (site.directoryDisabled = "bool:true" /\ ~isAdmin) =>
                  props.projects = <<>>
            /\ props.userIsAdmin = isAdmin

\* C18 witness: the store holds projects, the setting is true, a plain user
\* got none of them.
C18_Witness ==
    /\ page.props # Null
    /\ site.directoryDisabled = "bool:true"
    /\ site.visitor = "bob"
    /\ site.projects # <<>>
    /\ page.props[1].projects = <<>>

\* The place of a project in a list of projects with distinct ids.
PlaceIn(ps, p) == CHOOSE i \in 1..Len(ps) : ps[i] = p

\* C19: the selection is none or one tag, the one the last event set
\* (checked) or none (unchecked); with no tag selected the displayed list is
\* the whole list, otherwise it holds exactly the projects whose tags
\* include the selected tag, in their original order.
C19_TagFilter ==
    page.pc = "rendered" =>
        LET ps == page.props[1].projects
            fs == page.filteredProjects
            tag == page.selectedTag
        IN  /\ tag \in Tags \cup {"null"}
            /\ page.lastEvent = Null => tag = "null"
            /\ page.lastEvent # Null =>
                  tag = (IF page.lastEvent[1].checked
                         THEN page.lastEvent[1].tag ELSE "null")
            /\ tag = "null" => fs = ps
            /\ tag # "null" =>
                  /\ \A k \in 1..Len(fs) :
                        fs[k] \in Range(ps) /\ tag \in fs[k].tags
                  /\ \A i \in 1..Len(ps) :
                        tag \in ps[i].tags => ps[i] \in Range(fs)
                  /\ \A k, l \in 1..Len(fs) :
                        k < l => PlaceIn(ps, fs[k]) < PlaceIn(ps, fs[l])

\* C19 witness: tagB was checked; of the two projects handed to the page
\* only the second is displayed.
C19_Witness ==
    /\ page.pc = "rendered"
    /\ page.selectedTag = "tagB"
    /\ page.lastEvent = Some([tag |-> "tagB", checked |-> TRUE])
    /\ Len(page.props[1].projects) = 2
    /\ Len(page.filteredProjects) = 1
    /\ page.filteredProjects[1].id = 2

====
